---- MODULE Spec2Model ----
(***************************************************************************)
(* Model of users_service/views/auth_view.py: the register, login, status, *)
(* logout and list-users resources over the user store, the blacklist      *)
(* store, the signed expiring access token and the per-client session.     *)
(***************************************************************************)
EXTENDS Integers, Sequences, FiniteSets, TLC

\* ---------------------------------------------------------------- bounds
MaxClock == 2
TokenLifetime == 1
MaxTokens == 1

\* ------------------------------------------------------- input universes
Clients == {"c1", "c2"}
Emails == {"joe@x", "ann@x"}
BadEmail == "not-an-email"
Passwords == {"pw1", "pw2"}
FirstNames == {"joe"}
LastNames == {"doe"}

Bodies == [email : Emails \cup {BadEmail}, password : Passwords,
           first_name : FirstNames, last_name : LastNames]

\* the bodies of the register requests; a body may also name a role
RegisterBodies == [email : Emails \cup {BadEmail}, password : {"pw1"},
                   first_name : FirstNames, last_name : LastNames, role_id : {1, 2}]

\* how a caller attaches a token to a status / logout request
Carriers == {"none", "cookie", "cookie_noeq", "bearer", "bearer_nosep"}
LogoutCarriers == {"cookie", "bearer"}

\* -------------------------------------------------------- program names
AUTH_TOKEN_KEY == "auth_token"
IS_ADMIN == "admin"

HTTP_200_OK == 200
HTTP_201_CREATED == 201
HTTP_202_ACCEPTED == 202
HTTP_400_BAD_REQUEST == 400
HTTP_401_UNAUTHORIZED == 401
HTTP_404_NOT_FOUND == 404

VARIABLES users, blacklist, issued, jti, now, session, pc, pending, fresh, last

vars == <<users, blacklist, issued, jti, now, session, pc, pending, fresh, last>>

\* ------------------------------------------------------------ tokens
NoToken == [identity |-> "", exp |-> 0, jti |-> 0, sig |-> "none"]

\* tokens not signed with the service's secret
ForgedTokens == {[identity |-> "joe@x", exp |-> MaxClock + TokenLifetime, jti |-> 0, sig |-> "bad"]}

\* create_access_token(identity=...): signed, expiring, with a fresh jti
create_access_token(identity) ==
    [identity |-> identity, exp |-> now + TokenLifetime, jti |-> jti + 1, sig |-> "ok"]

\* variant: a token counts as expired already at its expiry instant
decode_token_ExpiredAtInstant(t) ==
    IF t.sig # "ok" THEN [raised |-> "InvalidSignatureError", identity |-> ""]
    ELSE IF t.exp <= now THEN [raised |-> "ExpiredSignatureError", identity |-> ""]
    ELSE [raised |-> "", identity |-> t.identity]

\* decode_token(access_token): the signature is verified first, then the
\* expiry (expired exactly when exp < now); yields the claims or the raised
\* exception
decode_token(t) ==
    IF t.sig # "ok" THEN [raised |-> "InvalidSignatureError", identity |-> ""]
    ELSE IF t.exp < now THEN [raised |-> "ExpiredSignatureError", identity |-> ""]
    ELSE [raised |-> "", identity |-> t.identity]

\* ------------------------------------------------------------ user rows
\* BCRYPT hash of a plaintext and its check
Hash(pw) == <<"bcrypt", pw>>

check_password_hash(h, pw) == h = Hash(pw)

NoRow == [email |-> "", password |-> Hash(""), first_name |-> "", last_name |-> "", role_id |-> 0]

\* variant: the role is taken from the request body
User_RoleFromBody(new_user) ==
    [email |-> new_user.email, password |-> Hash(new_user.password),
     first_name |-> new_user.first_name, last_name |-> new_user.last_name,
     role_id |-> new_user.role_id]

\* User(email=..., password=..., first_name=..., last_name=..., role_id=1)
User(new_user) ==
    [email |-> new_user.email, password |-> Hash(new_user.password),
     first_name |-> new_user.first_name, last_name |-> new_user.last_name,
     role_id |-> 1]

\* the row of the administrator, put in the store when the service is set up
\* (no handler creates a row with role_id 2)
AdminRow == [email |-> "ann@x", password |-> Hash("pw1"), first_name |-> "joe",
             last_name |-> "doe", role_id |-> 2]

\* USER_SCHEMA.load(request.json): raises ValidationError on a malformed body
ValidationFails(body) == body.email \notin Emails

\* variant: the filter on the email is lost
QueryByEmail_Unfiltered(email) == users

\* User.query.filter_by(email=...).first(): the rows with that email
QueryByEmail(email) == {u \in users : u.email = email}

\* the unique constraint on users.email, checked by the database at commit
IntegrityViolation(row) == \E u \in users : u.email = row.email

\* the fields UserSchema serializes
SchemaFields == {"email", "password", "first_name", "last_name", "role_id"}

\* USER_SCHEMA.dump(user).data: the dict of the serialized fields of a row
USER_SCHEMA_dump(user) == [f \in SchemaFields |-> user[f]]

\* del response_obj['password'] on the dumped row
DelKey(obj, key) == [f \in (DOMAIN obj) \ {key} |-> obj[f]]

NoData == DelKey([password |-> ""], "password")

\* ------------------------------------------------------------ responses
Response(code, keys, message, token, data, list) ==
    [code |-> code, keys |-> keys, message |-> message, token |-> token,
     data |-> data, list |-> list]

ErrorResponse(code, message) == Response(code, {"error"}, message, NoToken, NoData, {})

\* an exception that no except clause of the handler catches
Unhandled == Response(500, {"message"}, "Internal Server Error", NoToken, NoData, {})

NoResponse == Response(0, {}, "", NoToken, NoData, {})

\* ------------------------------------------------------------ sessions
EmptySession == [keys |-> {}, auth_token |-> NoToken, admin |-> FALSE]

\* variant: the admin marker is not set
SessionSet_TokenOnly(access_token, admin) ==
    [keys |-> {AUTH_TOKEN_KEY}, auth_token |-> access_token, admin |-> FALSE]

\* session[AUTH_TOKEN_KEY] = access_token; session[IS_ADMIN] = admin
SessionSet(access_token, admin) ==
    [keys |-> {AUTH_TOKEN_KEY, IS_ADMIN}, auth_token |-> access_token, admin |-> admin]

\* ------------------------------------------------------------ requests
\* the headers of a request that carries token t in the given way; a header
\* value is modelled by its list of '='-separated fields after the first
Headers(carrier, t) ==
    [SetCookie |-> [present |-> carrier \in {"cookie", "cookie_noeq"},
                    rest |-> IF carrier = "cookie" THEN <<t>> ELSE <<>>],
     Authorization |-> [present |-> carrier \in {"bearer", "bearer_nosep"},
                        separated |-> carrier = "bearer",
                        token |-> IF carrier \in {"bearer", "bearer_nosep"} THEN t ELSE NoToken]]

\* the request completed last: the handler, the client and the response;
\* raced marks a register request whose email was not stored when it began
\* and was stored when it committed
LastRec(op, c, resp, raced) == [op |-> op, client |-> c, resp |-> resp, raced |-> raced]

\* ------------------------------------------------------------ Init
Init ==
    /\ users = {AdminRow}
    /\ blacklist = {}
    /\ issued = {}
    /\ jti = 0
    /\ now = 0
    /\ session = [c \in Clients |-> EmptySession]
    /\ pc = [c \in Clients |-> "idle"]
    /\ pending = [c \in Clients |-> NoRow]
    /\ fresh = [c \in Clients |-> FALSE]
    /\ last = [op |-> "none", client |-> "c1", resp |-> NoResponse, raced |-> FALSE]

\* ------------------------------------------------------------ register
\* RegisterResource.post up to DB.session.add(user)
RegisterBegin(c, body) ==
    /\ pc[c] = "idle"
    /\ IF ValidationFails(body)
       THEN /\ last' = LastRec("register", c,
                               Response(HTTP_400_BAD_REQUEST, {"email"}, "Not a valid email address.", NoToken, NoData, {}),
                               FALSE)
            /\ UNCHANGED <<pc, pending, fresh>>
       ELSE /\ pending' = [pending EXCEPT ![c] = User(body)]
            /\ pc' = [pc EXCEPT ![c] = "commit"]
            /\ fresh' = [fresh EXCEPT ![c] = QueryByEmail(body.email) = {}]
            /\ UNCHANGED last
    /\ UNCHANGED <<users, blacklist, issued, jti, now, session>>

\* variant: no rollback, the pending row reaches the store
RegisterRollback_KeepsRow(c) ==
    /\ users' = users \cup {pending[c]}
    /\ last' = LastRec("register", c, ErrorResponse(HTTP_400_BAD_REQUEST, "Already exists."), fresh[c])
    /\ UNCHANGED <<issued, jti, session>>

\* variant: the IntegrityError is not caught
RegisterRollback_Uncaught(c) ==
    /\ last' = LastRec("register", c, Unhandled, fresh[c])
    /\ UNCHANGED <<users, issued, jti, session>>

\* except IntegrityError: DB.session.rollback(); 'Already exists.'
RegisterRollback(c) ==
    /\ last' = LastRec("register", c, ErrorResponse(HTTP_400_BAD_REQUEST, "Already exists."), fresh[c])
    /\ UNCHANGED <<users, issued, jti, session>>

\* the commit went through: mint the token, set the session markers
RegisterCreated(c) ==
    LET access_token == create_access_token(pending[c].email) IN
    /\ jti < MaxTokens
    /\ users' = users \cup {pending[c]}
    /\ issued' = issued \cup {access_token}
    /\ jti' = jti + 1
    /\ session' = [session EXCEPT ![c] = SessionSet(access_token, FALSE)]
    /\ last' = LastRec("register", c,
                       Response(HTTP_201_CREATED, {"message", "token"}, "Successfully registered.",
                                access_token, NoData, {}),
                       FALSE)

\* RegisterResource.post from DB.session.commit() on
RegisterCommit(c) ==
    /\ pc[c] = "commit"
    /\ IF IntegrityViolation(pending[c]) THEN RegisterRollback(c) ELSE RegisterCreated(c)
    /\ pc' = [pc EXCEPT ![c] = "idle"]
    /\ pending' = [pending EXCEPT ![c] = NoRow]
    /\ fresh' = [fresh EXCEPT ![c] = FALSE]
    /\ UNCHANGED <<blacklist, now>>

\* ------------------------------------------------------------ login
\* the response and the session of LoginResource.post, as the pair the
\* handler produces for a body
LoginOutcome(c, body) ==
    IF ValidationFails(body)
    THEN [resp |-> Response(HTTP_400_BAD_REQUEST, {"email"}, "Not a valid email address.", NoToken, NoData, {}),
          session |-> session[c], minted |-> FALSE]
    ELSE LET found == QueryByEmail(body.email) IN
         IF found # {} /\ check_password_hash((CHOOSE u \in found : TRUE).password, body.password)
         THEN LET user == CHOOSE u \in found : TRUE
                  access_token == create_access_token(user.email) IN
              [resp |-> Response(HTTP_201_CREATED, {"message", "token"}, "Successfully logged in.",
                                 access_token, NoData, {}),
               session |-> SessionSet(access_token, user.role_id = 2), minted |-> TRUE]
         ELSE [resp |-> ErrorResponse(HTTP_400_BAD_REQUEST, "Wrong password."),
               session |-> session[c], minted |-> FALSE]

\* LoginResource.post
Login(c, body) ==
    LET out == LoginOutcome(c, body) IN
    /\ pc[c] = "idle"
    /\ out.minted => jti < MaxTokens
    /\ session' = [session EXCEPT ![c] = out.session]
    /\ issued' = IF out.minted THEN issued \cup {out.resp.token} ELSE issued
    /\ jti' = IF out.minted THEN jti + 1 ELSE jti
    /\ last' = LastRec("login", c, out.resp, FALSE)
    /\ UNCHANGED <<users, blacklist, now, pc, pending, fresh>>

\* ------------------------------------------------------------ status
\* request.headers.get('Set-Cookie').split('=')[1]: the token, or the
\* exception raised (None has no split; a value without '=' has no [1])
ReadAccessToken(headers) ==
    IF ~headers.SetCookie.present THEN [raised |-> "AttributeError", token |-> NoToken]
    ELSE IF Len(headers.SetCookie.rest) < 1 THEN [raised |-> "IndexError", token |-> NoToken]
    ELSE [raised |-> "", token |-> headers.SetCookie.rest[1]]

\* USER_SCHEMA.dump(user).data followed by del response_obj['password']
StatusProfile(found) ==
    IF found = {} THEN Unhandled
    ELSE LET response_obj == DelKey(USER_SCHEMA_dump(CHOOSE u \in found : TRUE), "password") IN
         Response(HTTP_200_OK, DOMAIN response_obj, "", NoToken, response_obj, {})

\* the response of StatusResource.get to a request with these headers
StatusResponse(headers) ==
    LET read == ReadAccessToken(headers) IN
    IF read.raised = "KeyError" THEN ErrorResponse(HTTP_401_UNAUTHORIZED, "Provide a valid auth token.")
    ELSE IF read.raised # "" THEN Unhandled
    ELSE LET user_info == decode_token(read.token) IN
         IF user_info.raised = "ExpiredSignatureError"
         THEN ErrorResponse(HTTP_401_UNAUTHORIZED, "Signature expired. Please, log in again.")
         ELSE IF user_info.raised # "" THEN Unhandled
         ELSE StatusProfile(QueryByEmail(user_info.identity))

\* StatusResource.get
Status(c, carrier, t) ==
    /\ pc[c] = "idle"
    /\ last' = LastRec("status", c, StatusResponse(Headers(carrier, t)), FALSE)
    /\ UNCHANGED <<users, blacklist, issued, jti, now, session, pc, pending, fresh>>

\* ------------------------------------------------------------ logout
\* the response of LogoutResource.post: the handler reads no header
LogoutResponse(headers) ==
    Response(HTTP_200_OK, {"message"}, "Successfully logged out.", NoToken, NoData, {})

\* variant: only the token marker is popped
SessionCleared_KeepsAdmin(s) ==
    [s EXCEPT !.keys = @ \ {AUTH_TOKEN_KEY}, !.auth_token = NoToken]

\* session.pop(AUTH_TOKEN_KEY, None); session.pop(IS_ADMIN, None); session.clear()
SessionCleared(s) ==
    LET popped1 == [s EXCEPT !.keys = @ \ {AUTH_TOKEN_KEY}, !.auth_token = NoToken]
        popped2 == [popped1 EXCEPT !.keys = @ \ {IS_ADMIN}, !.admin = FALSE]
    IN  [popped2 EXCEPT !.keys = {}]

\* variant: logout deletes the token's row from the blacklist store
Logout_PurgesBlacklist(c, carrier, t) ==
    /\ pc[c] = "idle"
    /\ session' = [session EXCEPT ![c] = SessionCleared(session[c])]
    /\ blacklist' = blacklist \ {t}
    /\ last' = LastRec("logout", c, LogoutResponse(Headers(carrier, t)), FALSE)
    /\ UNCHANGED <<users, issued, jti, now, pc, pending, fresh>>

\* LogoutResource.post
Logout(c, carrier, t) ==
    /\ pc[c] = "idle"
    /\ session' = [session EXCEPT ![c] = SessionCleared(session[c])]
    /\ last' = LastRec("logout", c, LogoutResponse(Headers(carrier, t)), FALSE)
    /\ UNCHANGED <<users, blacklist, issued, jti, now, pc, pending, fresh>>

\* ------------------------------------------------------------ list users
\* variant: the rows of administrators are withheld
UsersResponse_HidesAdmins ==
    Response(HTTP_200_OK, {}, "", NoToken, NoData,
             {DelKey(USER_SCHEMA_dump(u), "password") : u \in {v \in users : v.role_id # 2}})

\* variant: the password is left in the dumped rows
UsersResponse_KeepsPassword ==
    Response(HTTP_200_OK, {}, "", NoToken, NoData, {USER_SCHEMA_dump(u) : u \in users})

\* the response of UsersResource.get
UsersResponse ==
    Response(HTTP_200_OK, {}, "", NoToken, NoData,
             {DelKey(USER_SCHEMA_dump(u), "password") : u \in users})

\* UsersResource.get
UsersList(c) ==
    /\ pc[c] = "idle"
    /\ last' = LastRec("users", c, UsersResponse, FALSE)
    /\ UNCHANGED <<users, blacklist, issued, jti, now, session, pc, pending, fresh>>

\* ------------------------------------------------------------ blacklist
\* a BlacklistToken row added and committed directly on the database
BlacklistInsert(t) ==
    /\ t \notin blacklist
    /\ blacklist' = blacklist \cup {t}
    /\ UNCHANGED <<users, issued, jti, now, session, pc, pending, fresh, last>>

\* the tokens a caller can present: every minted one and the forged ones
Presentable == issued \cup ForgedTokens

Tick ==
    /\ now < MaxClock
    /\ now' = now + 1
    /\ UNCHANGED <<users, blacklist, issued, jti, session, pc, pending, fresh, last>>

Next ==
    \/ \E c \in Clients, body \in RegisterBodies : RegisterBegin(c, body)
    \/ \E c \in Clients : RegisterCommit(c)
    \/ \E c \in Clients, body \in Bodies : Login(c, body)
    \/ \E c \in Clients, carrier \in Carriers, t \in Presentable : Status(c, carrier, t)
    \/ \E c \in Clients, carrier \in LogoutCarriers, t \in Presentable : Logout(c, carrier, t)
    \/ \E c \in Clients : UsersList(c)
    \/ \E t \in issued : BlacklistInsert(t)
    \/ Tick

Spec == Init /\ [][Next]_vars

\* ------------------------------------------------------------ outcomes
IsBlacklisted(r) == r.code = HTTP_401_UNAUTHORIZED /\ r.message = "Token blacklisted. Please log in again."

IsExpired(r) ==
    /\ r.code = HTTP_401_UNAUTHORIZED
    /\ r.message \in {"Signature expired. Please, log in again.", "Signature expired. Please log in again."}

IsAlreadyExists(r) == r.message \in {"Already exists.", "User already exists. Please Log in."}

IsWrongCredentials(r) == r.code = HTTP_400_BAD_REQUEST /\ r.message = "Wrong password."

IsNotFound(r) == r.code = HTTP_404_NOT_FOUND /\ r.message = "User does not exist."

Live(t) == t.exp >= now

\* the ways a request can carry a token so that it is a well-formed header
TokenCarriers == {"cookie", "bearer"}

\* ------------------------------------------------------------ claims

\* C1: in every reachable state, a status request and a logout request that
\* carry a token of the blacklist store both fail with Blacklisted (401).
C1_BlacklistedRejected ==
    \A t \in blacklist : \E carrier \in TokenCarriers :
        /\ IsBlacklisted(StatusResponse(Headers(carrier, t)))
        /\ IsBlacklisted(LogoutResponse(Headers(carrier, t)))

\* C2: a logout with a token that is live and not blacklisted puts the token
\* in the blacklist store and returns 200, and a status request with that
\* token is then answered Blacklisted.
C2_LogoutBlacklists ==
    [][\A c \in Clients, carrier \in TokenCarriers, t \in issued :
         (Logout(c, carrier, t) /\ Live(t) /\ t \notin blacklist)
            => /\ last'.resp.code = HTTP_200_OK
               /\ t \in blacklist'
               /\ IsBlacklisted(StatusResponse(Headers(carrier, t)))']_vars

\* C3: after a logout of a live token has returned 200, a second logout of
\* the same token is answered Blacklisted (401).
C3_SecondLogoutFails ==
    [][\A c \in Clients, carrier \in TokenCarriers, t \in issued :
         (Logout(c, carrier, t) /\ Live(t) /\ t \notin blacklist /\ last'.resp.code = HTTP_200_OK)
            => IsBlacklisted(LogoutResponse(Headers(carrier, t)))']_vars

\* C4: a logout with a token past its expiry fails with Expired (401) and
\* leaves the blacklist store as it was.
C4_ExpiredLogoutFails ==
    [][\A c \in Clients, carrier \in TokenCarriers, t \in issued :
         (Logout(c, carrier, t) /\ ~Live(t))
            => /\ IsExpired(last'.resp)
               /\ blacklist' = blacklist]_vars

UniqueEmail == \A u, v \in users : u.email = v.email => u = v

\* C6: no two rows of the user store share an email, and a register request
\* for a stored email yields AlreadyExists and leaves the user store as it
\* was.
C6_NoDuplicateUser ==
    /\ []UniqueEmail
    /\ [][\A c \in Clients :
            (pc[c] = "commit" /\ pc'[c] = "idle" /\ QueryByEmail(pending[c].email) # {})
               => /\ IsAlreadyExists(last'.resp)
                  /\ users' = users]_vars

\* a register request for an email that was stored before it began was
\* answered AlreadyExists
C6_Witness ==
    /\ last.op = "register"
    /\ IsAlreadyExists(last.resp)
    /\ ~last.raced

\* C7: a register request for a stored email is answered with status 202,
\* which differs from the 400 of a validation failure.
C7_AlreadyExistsIs202 ==
    (last.op = "register" /\ IsAlreadyExists(last.resp))
        => /\ last.resp.code = HTTP_202_ACCEPTED
           /\ last.resp.code # HTTP_400_BAD_REQUEST

\* two register requests for the same email, not stored when either began,
\* are both between add and commit
Racing(c, d) ==
    /\ c # d
    /\ pc[c] = "commit" /\ pc[d] = "commit"
    /\ pending[c].email = pending[d].email
    /\ fresh[c] /\ fresh[d]
    /\ QueryByEmail(pending[c].email) = {}

\* C8: of two concurrent register requests for one email that is not yet
\* stored, the first to commit returns success with a token, the other
\* returns AlreadyExists and not an unhandled error, and the store ends with
\* exactly one row for that email.
C8_ConcurrentRegister ==
    [][\A c, d \in Clients :
         /\ (Racing(c, d) /\ pc'[c] = "idle")
               => /\ last'.resp.code = HTTP_201_CREATED
                  /\ last'.resp.token.identity = pending[c].email
                  /\ pc'[d] = "commit"
                  /\ Cardinality({u \in users' : u.email = pending[c].email}) = 1
         /\ (pc[c] = "commit" /\ pc'[c] = "idle" /\ fresh[c] /\ QueryByEmail(pending[c].email) # {})
               => /\ IsAlreadyExists(last'.resp)
                  /\ last'.resp # Unhandled
                  /\ Cardinality({u \in users' : u.email = pending[c].email}) = 1]_vars

\* the register request that lost a race was answered AlreadyExists
C8_Witness ==
    /\ last.op = "register"
    /\ last.raced
    /\ IsAlreadyExists(last.resp)
    /\ UniqueEmail

C10_LoginOutcomes ==
    [][\A c \in Clients, body \in Bodies :
         (Login(c, body) /\ ~ValidationFails(body))
            => LET found == QueryByEmail(body.email)
                   matches == \E u \in found : check_password_hash(u.password, body.password)
               IN /\ (found # {} /\ matches)
                        => last'.resp.code = HTTP_201_CREATED /\ last'.resp.token # NoToken
                  /\ (found # {} /\ ~matches) => IsWrongCredentials(last'.resp)
                  /\ found = {} => IsNotFound(last'.resp)]_vars

IsMalformed(r) == r.code = HTTP_401_UNAUTHORIZED /\ r.message = "Bearer token malformed."

\* C11: a status request whose Authorization header joins the prefix and the
\* token without the separating space fails with Malformed (401, 'Bearer
\* token malformed.'), and a well-formed header never gets Malformed.
C11_MalformedHeader ==
    \A t \in issued :
        /\ IsMalformed(StatusResponse(Headers("bearer_nosep", t)))
        /\ \A carrier \in TokenCarriers : ~IsMalformed(StatusResponse(Headers(carrier, t)))

\* C12: no request ends in an unhandled error: every completed request has
\* a structured success or failure response.
C12_NoUnhandledError == last.op # "none" => last.resp # Unhandled

PublicFields == {"email", "first_name", "last_name", "role_id"}

\* p has exactly the fields of a stored user other than the password, with
\* that user's values
IsPublicProfile(p) ==
    /\ DOMAIN p = PublicFields
    /\ \E u \in users : \A f \in PublicFields : p[f] = u[f]

\* C13: no response carries a stored credential: the profile of a successful
\* status request and every profile of a list-users response has all the
\* fields of the user except the password.
C13_NoCredentialInResponse ==
    /\ "password" \notin DOMAIN last.resp.data
    /\ \A p \in last.resp.list : "password" \notin DOMAIN p
    /\ (last.op = "status" /\ last.resp.code = HTTP_200_OK) => IsPublicProfile(last.resp.data)
    /\ last.op = "users" => \A p \in last.resp.list : IsPublicProfile(p)
    /\ \A p \in UsersResponse.list : IsPublicProfile(p)
    /\ \A t \in issued :
          LET r == StatusResponse(Headers("cookie", t)) IN
          r.code = HTTP_200_OK => IsPublicProfile(r.data)

\* a list-users request returned the profiles of two stored users
C13_Witness ==
    /\ last.op = "users"
    /\ Cardinality(last.resp.list) = 2

\* C14: a successful register or login response carries the keys status,
\* message and auth_token, and every failure response carries the keys
\* status and message.
C14_ResponseShape ==
    /\ (last.op \in {"register", "login"} /\ last.resp.code = HTTP_201_CREATED)
          => {"status", "message", "auth_token"} \subseteq last.resp.keys
    /\ (last.op # "none" /\ last.resp.code >= HTTP_400_BAD_REQUEST)
          => {"status", "message"} \subseteq last.resp.keys

\* C15: after a logout request has returned success, the session of its
\* client holds neither the auth-token marker nor the admin marker.
C15_LogoutClearsSession ==
    (last.op = "logout" /\ last.resp.code = HTTP_200_OK)
        => /\ AUTH_TOKEN_KEY \notin session[last.client].keys
           /\ IS_ADMIN \notin session[last.client].keys

\* a token was minted, which set the markers of a session, and after a
\* logout no session holds a marker
C15_Witness ==
    /\ last.op = "logout"
    /\ issued # {}
    /\ \A c \in Clients : session[c].keys = {}

\* C17: list users answers any caller with 200 and exactly one public
\* profile per row of the user store, and a list-users request leaves the
\* user store, the blacklist store and the sessions unchanged.
C17_ListUsersOpenReadOnly ==
    /\ [](/\ UsersResponse.code = HTTP_200_OK
          /\ Cardinality(UsersResponse.list) = Cardinality(users)
          /\ \A u \in users : \E p \in UsersResponse.list :
                p.email = u.email /\ IsPublicProfile(p)
          /\ last.op = "users" => last.resp = UsersResponse)
    /\ [][(last' # last /\ last'.op = "users")
             => /\ users' = users
                /\ blacklist' = blacklist
                /\ session' = session
                /\ issued' = issued]_vars

\* a list-users request of a client that never authenticated was answered
\* with the profiles of both stored users, the administrator's included
C17_Witness ==
    /\ last.op = "users"
    /\ last.resp.code = HTTP_200_OK
    /\ session[last.client].keys = {}
    /\ \E p \in last.resp.list : p.role_id = 2
    /\ \E p \in last.resp.list : p.role_id = 1

\* C18: the blacklist store only grows: a token that is in it stays in it
\* over every step, and no step alters a row.
C18_BlacklistOnlyGrows == [][blacklist \subseteq blacklist']_vars

\* every minted token is blacklisted and a logout has been handled
C18_Witness ==
    /\ issued # {}
    /\ blacklist = issued
    /\ last.op = "logout"

IsAdminEmail(email) == \E u \in users : u.email = email /\ u.role_id = 2

AuthSucceeded(rec) == rec.op \in {"register", "login"} /\ rec.resp.code = HTTP_201_CREATED

Admins == {u \in users : u.role_id = 2}

\* C20: every row a register request creates has role 1 whatever the body
\* names, no step changes or removes an existing row, and the set of admin
\* users never grows.
C20_NoPrivilegeGain ==
    [][/\ users \subseteq users'
       /\ \A u \in users' \ users : u.role_id = 1
       /\ {u \in users' : u.role_id = 2} = Admins]_vars

\* a register request succeeded and its user is stored with role 1 next to
\* the administrator
C20_Witness ==
    /\ last.op = "register"
    /\ last.resp.code = HTTP_201_CREATED
    /\ \E u \in users : u.email = last.resp.token.identity /\ u.role_id = 1
    /\ Admins # {}

====
